---------------------------- MODULE Spec2Model ----------------------------
(***************************************************************************)
(* sallyport: the Request / Reply / Message / Block records shared between *)
(* the microkernel and the hypervisor, the Result <-> Reply conversions    *)
(* for x86_64 Linux, and the syscall() transition primitive.               *)
(*                                                                         *)
(* A usize (and a Register<usize>) is 64 bits wide and libc::c_int is 32   *)
(* bits wide.  A usize is kept as four 16-bit limbs, least significant     *)
(* first, so that every cast and comparison is exact; a c_int is kept as   *)
(* the integer it denotes, -2^31 .. 2^31 - 1.                              *)
(***************************************************************************)
EXTENDS Integers, Sequences, FiniteSets

VARIABLES
    overflow_checks,  \* build profile: does integer overflow panic (debug) or wrap (release)
    \* --- Result <-> Reply conversions
    cpc,              \* "start", "picked", "replied", "decoded", "enc_panic", "dec_panic"
    src,              \* "result": a Result was converted first; "reply": a raw Reply is decoded
    value,            \* the Result handed to Reply::from
    rep,              \* the Reply
    res,              \* the Result produced by Result::from(Reply)
    \* --- Request::new
    rpc,              \* "start", "built"
    num,              \* the selector handed to Request::new
    arg,              \* the argument slice handed to Request::new
    req,              \* the Request built
    \* --- layout
    lpc,              \* which layout step comes next
    arch,             \* [W |-> register width in bytes, P |-> page size in bytes]
    off,              \* running offset inside the struct being laid out
    fld,              \* number of fields of the struct already placed
    sizes,            \* sizes computed so far
    build_error,      \* the constant evaluation of buf_capacity underflowed
    \* --- transition primitive
    phase,            \* "Idle", "RequestWritten", "Transition", "ReplyWritten"
    sreq,             \* the Request of the call in progress
    reply,            \* syscall()'s local `reply`
    written,          \* the words of `reply` the host handler has written
    hostret,          \* the Reply the host handler computed for this call
    observed,         \* the Reply syscall() handed back to its caller
    inflight,         \* number of calls inside the transition
    fds,              \* open file descriptors of the host process
    history           \* the calls completed so far: <<request, decoded result>>

convVars  == <<cpc, src, value, rep, res>>
reqVars   == <<rpc, num, arg, req>>
layVars   == <<lpc, arch, off, fld, sizes, build_error>>
protoVars == <<phase, sreq, reply, written, hostret, observed, inflight, fds, history>>
vars == <<overflow_checks, convVars, reqVars, layVars, protoVars>>

\* what the steps of each part leave alone
convFrame  == <<overflow_checks, reqVars, layVars, protoVars>>
reqFrame   == <<overflow_checks, convVars, layVars, protoVars>>
layFrame   == <<overflow_checks, convVars, reqVars, protoVars>>
protoFrame == <<overflow_checks, convVars, reqVars, layVars>>

---------------------------------------------------------------------------
(* Bounds of the model *)

\* how far around each boundary value the sampled inputs reach
Near == 2
\* longest argument slice handed to Request::new (more than the 7 it keeps)
MaxArgs == 8
\* number of calls made through the transition primitive in one run
MaxCalls == 3

---------------------------------------------------------------------------
(* 64-bit and 32-bit machine integers *)

LimbBase == 2 ^ 16
LimbMax  == LimbBase - 1
SignBit  == 2 ^ 15

CIntMax == (2 ^ 30 - 1) * 2 + 1
CIntMin == -CIntMax - 1

\* usize values: four limbs, least significant first
Usize(l0, l1, l2, l3) == <<l0, l1, l2, l3>>
Zero     == Usize(0, 0, 0, 0)
UsizeMax == Usize(LimbMax, LimbMax, LimbMax, LimbMax)

\* a > b on usize
Gt(a, b) ==
    \E i \in 1..4 : a[i] > b[i] /\ \A j \in (i + 1)..4 : a[j] = b[j]

ZeroExtendedAsUsize(x) ==
    IF x >= 0
    THEN Usize(x % LimbBase, x \div LimbBase, 0, 0)
    ELSE LET m == (x + CIntMax) + 1
         IN  Usize(m % LimbBase, (m \div LimbBase) + SignBit, 0, 0)

\* `x as usize` for a signed x that fits 32 bits (c_int, or a small isize):
\* two's complement, sign-extended to 64 bits
SignedAsUsize(x) ==
    IF x >= 0
    THEN Usize(x % LimbBase, x \div LimbBase, 0, 0)
    ELSE LET m == (x + CIntMax) + 1      \* x + 2^31, the low 31 bits of the pattern
         IN  Usize(m % LimbBase, (m \div LimbBase) + SignBit, LimbMax, LimbMax)

\* `reg as libc::c_int`: keep the low 32 bits, read them as signed
UsizeAsCInt(reg) ==
    IF reg[2] >= SignBit
    THEN (reg[2] - LimbBase) * LimbBase + reg[1]
    ELSE reg[2] * LimbBase + reg[1]

\* unary minus on c_int overflows for the minimum only
NegOverflows(x) == x = CIntMin

\* unary minus on c_int where it does not panic: wraps at the minimum
Neg(x) == IF NegOverflows(x) THEN CIntMin ELSE -x

---------------------------------------------------------------------------
(* Result and Reply *)

Ok(v)  == [tag |-> "Ok",  val |-> v, code |-> 0]
Err(e) == [tag |-> "Err", val |-> <<Zero, Zero>>, code |-> e]

\* the error band: `-4096isize as usize`
ErrBand == 4096
Threshold == SignedAsUsize(-ErrBand)

\* impl From<Result<[Register<usize>; 2], libc::c_int>> for Reply
ReplyFromPanics(v) ==
    v.tag = "Err" /\ overflow_checks /\ NegOverflows(v.code)

ReplyFromNoNegation(v) ==
    IF v.tag = "Ok"
    THEN [ret |-> v.val, err |-> Zero]
    ELSE [ret |-> <<SignedAsUsize(v.code), Zero>>, err |-> Zero]

ReplyFrom(v) ==
    IF v.tag = "Ok"
    THEN [ret |-> v.val, err |-> Zero]
    ELSE [ret |-> <<SignedAsUsize(Neg(v.code)), Zero>>, err |-> Zero]

\* impl From<Reply> for Result<[Register<usize>; 2], libc::c_int>
IsErrValueOrEqual(reg) == reg = Threshold \/ Gt(reg, Threshold)

IsErrValueLow32(reg) ==
    Gt(Usize(reg[1], reg[2], 0, 0), Usize(Threshold[1], Threshold[2], 0, 0))

IsErrValue(reg) == Gt(reg, Threshold)

ResultFromPanics(r) ==
    IsErrValue(r.ret[1]) /\ overflow_checks /\ NegOverflows(UsizeAsCInt(r.ret[1]))

ResultFromNoNegation(r) ==
    IF IsErrValue(r.ret[1])
    THEN Err(UsizeAsCInt(r.ret[1]))
    ELSE Ok(r.ret)

ResultFrom(r) ==
    IF IsErrValue(r.ret[1])
    THEN Err(Neg(UsizeAsCInt(r.ret[1])))
    ELSE Ok(r.ret)

---------------------------------------------------------------------------
(* Inputs of the conversions *)

EBADF == 9

\* low limbs around 0, around the edge of the error band and around the top
LowLimbs ==
    (0..Near) \cup ((LimbBase - ErrBand - Near)..(LimbBase - ErrBand + Near))
              \cup ((LimbMax - Near)..LimbMax) \cup {LimbBase - EBADF}

\* sampled registers: every mix of all-zero / sign-bit / all-one upper limbs
SampleRegs ==
    {Usize(a, b, c, d) : a \in LowLimbs, b \in {0, SignBit, LimbMax},
                         c \in {0, LimbMax}, d \in {0, LimbMax}}

\* every register from just below the error band up to usize::MAX
BandRegs ==
    {Usize(a, LimbMax, LimbMax, LimbMax) : a \in (LimbBase - ErrBand - Near)..LimbMax}

Regs == SampleRegs \cup BandRegs

One == Usize(1, 0, 0, 0)
SmallRegs == {Zero, One, UsizeMax}

\* the other two words of a Reply
Tails == {<<Zero, Zero>>, <<One, UsizeMax>>, <<UsizeMax, One>>}

\* c_int codes: both ends of the type, all of 0 .. 4096 and their neighbours
CInts ==
    {CIntMin + k : k \in 0..Near} \cup ((-ErrBand - Near)..(-ErrBand + Near))
        \cup ((-Near)..(ErrBand + Near)) \cup {CIntMax - k : k \in 0..Near}

NoResult == Ok(<<Zero, Zero>>)
NoReply  == [ret |-> <<Zero, Zero>>, err |-> Zero]

ConvInit ==
    /\ cpc = "start"
    /\ src = "none"
    /\ value = NoResult
    /\ rep = NoReply
    /\ res = NoResult

\* a successful Result is handed to Reply::from
PickOk ==
    /\ cpc = "start"
    /\ \E v0 \in Regs, v1 \in SmallRegs : value' = Ok(<<v0, v1>>)
    /\ src' = "result"
    /\ cpc' = "picked"
    /\ UNCHANGED <<rep, res>>
    /\ UNCHANGED convFrame

\* a failed Result is handed to Reply::from
PickErr ==
    /\ cpc = "start"
    /\ \E e \in CInts : value' = Err(e)
    /\ src' = "result"
    /\ cpc' = "picked"
    /\ UNCHANGED <<rep, res>>
    /\ UNCHANGED convFrame

\* a Reply written by the host is about to be decoded
PickReply ==
    /\ cpc = "start"
    /\ \E r0 \in Regs, t \in Tails : rep' = [ret |-> <<r0, t[1]>>, err |-> t[2]]
    /\ src' = "reply"
    /\ cpc' = "replied"
    /\ UNCHANGED <<value, res>>
    /\ UNCHANGED convFrame

\* Reply::from(value)
ToReply ==
    /\ cpc = "picked"
    /\ IF ReplyFromPanics(value)
       THEN cpc' = "enc_panic" /\ UNCHANGED rep
       ELSE cpc' = "replied" /\ rep' = ReplyFrom(value)
    /\ UNCHANGED <<src, value, res>>
    /\ UNCHANGED convFrame

\* Result::from(rep)
ToResult ==
    /\ cpc = "replied"
    /\ IF ResultFromPanics(rep)
       THEN cpc' = "dec_panic" /\ UNCHANGED res
       ELSE cpc' = "decoded" /\ res' = ResultFrom(rep)
    /\ UNCHANGED <<src, value, rep>>
    /\ UNCHANGED convFrame

ConvNext ==
    PickOk \/ PickErr \/ PickReply \/ ToReply \/ ToResult

---------------------------------------------------------------------------
(* Request::new *)

\* slice.get(i), i counted from 0
Get(s, i) ==
    IF i < Len(s) THEN [some |-> TRUE, v |-> s[i + 1]] ELSE [some |-> FALSE, v |-> Zero]

\* Option::unwrap_or_default: the default Register is zero
UnwrapOrDefault(o) == IF o.some THEN o.v ELSE Zero

RequestNewRepeatedIndex(n, a) ==
    [num |-> n,
     arg |-> <<UnwrapOrDefault(Get(a, 0)), UnwrapOrDefault(Get(a, 1)),
               UnwrapOrDefault(Get(a, 2)), UnwrapOrDefault(Get(a, 3)),
               UnwrapOrDefault(Get(a, 4)), UnwrapOrDefault(Get(a, 5)),
               UnwrapOrDefault(Get(a, 5))>>]

RequestNew(n, a) ==
    [num |-> n,
     arg |-> <<UnwrapOrDefault(Get(a, 0)), UnwrapOrDefault(Get(a, 1)),
               UnwrapOrDefault(Get(a, 2)), UnwrapOrDefault(Get(a, 3)),
               UnwrapOrDefault(Get(a, 4)), UnwrapOrDefault(Get(a, 5)),
               UnwrapOrDefault(Get(a, 6))>>]

SYS_close == 3
SYS_dup == 32

Nums == {SignedAsUsize(SYS_close), SignedAsUsize(SYS_dup)}
ArgVals == {Zero, One, UsizeMax}

\* all slices of length 0 .. MaxArgs
Slices == UNION {[1..n -> ArgVals] : n \in 0..MaxArgs}

NoRequest == [num |-> Zero, arg |-> <<Zero, Zero, Zero, Zero, Zero, Zero, Zero>>]

ReqInit ==
    /\ rpc = "start"
    /\ num = Zero
    /\ arg = <<>>
    /\ req = NoRequest

\* the caller chooses a selector and an argument slice
ChooseArgs ==
    /\ rpc = "start"
    /\ num' \in Nums
    /\ arg' \in Slices
    /\ rpc' = "chosen"
    /\ UNCHANGED req
    /\ UNCHANGED reqFrame

\* Request::new(num, arg)
NewRequest ==
    /\ rpc = "chosen"
    /\ req' = RequestNew(num, arg)
    /\ rpc' = "built"
    /\ UNCHANGED <<num, arg>>
    /\ UNCHANGED reqFrame

ReqNext ==
    ChooseArgs \/ NewRequest

---------------------------------------------------------------------------
(* Layout of the #[repr(C)] types *)

\* register widths and page sizes, in bytes
Archs == {[W |-> w, P |-> 2 ^ k] : w \in {4, 8}, k \in 12..16}

AlignUp(x, a) == ((x + a - 1) \div a) * a
Max(a, b) == IF a >= b THEN a ELSE b

\* #[repr(C)]: a field goes at the next offset aligned for it
PlaceField(o, f) == AlignUp(o, f.align) + f.size

Register(W) == [size |-> W, align |-> W]
Array(elem, n) == [size |-> elem.size * n, align |-> elem.align]
Byte == [size |-> 1, align |-> 1]

\* struct Request { num, arg: [Register; 7] }
RequestFields(W) == <<Register(W), Array(Register(W), 7)>>
\* struct Reply { ret: [Register; 2], err }
ReplyFields(W) == <<Array(Register(W), 2), Register(W)>>

\* Block::buf_capacity()
BufCapacityUnderflows == arch.P < sizes.message

BufCapacityOfReply == arch.P - sizes.reply

BufCapacity == arch.P - sizes.message

\* struct Block { msg: Message, buf: [u8; Block::buf_capacity()] }
BlockFields(W) == <<[size |-> sizes.message, align |-> W], Array(Byte, sizes.cap)>>

FieldsOf(what) ==
    CASE what = "request" -> RequestFields(arch.W)
      [] what = "reply"   -> ReplyFields(arch.W)
      [] what = "block"   -> BlockFields(arch.W)

AfterStruct(what) ==
    CASE what = "request" -> "reply"
      [] what = "reply"   -> "message"
      [] what = "block"   -> "done"

NoSizes == [request |-> 0, reply |-> 0, message |-> 0, cap |-> 0, block |-> 0]

LayInit ==
    /\ lpc = "target"
    /\ arch = [W |-> 8, P |-> 4096]
    /\ off = 0
    /\ fld = 0
    /\ sizes = NoSizes
    /\ build_error = FALSE

\* the build targets one architecture
ChooseTarget ==
    /\ lpc = "target"
    /\ arch' \in Archs
    /\ lpc' = "request"
    /\ UNCHANGED <<off, fld, sizes, build_error>>
    /\ UNCHANGED layFrame

\* the next field of the struct being laid out is placed
LayoutField ==
    /\ lpc \in {"request", "reply", "block"}
    /\ fld < Len(FieldsOf(lpc))
    /\ off' = PlaceField(off, FieldsOf(lpc)[fld + 1])
    /\ fld' = fld + 1
    /\ UNCHANGED <<lpc, arch, sizes, build_error>>
    /\ UNCHANGED layFrame

\* all fields are placed: the size is the end offset rounded up to the alignment
LayoutStruct ==
    /\ lpc \in {"request", "reply", "block"}
    /\ fld = Len(FieldsOf(lpc))
    /\ sizes' = [sizes EXCEPT ![lpc] = AlignUp(off, arch.W)]
    /\ lpc' = AfterStruct(lpc)
    /\ off' = 0
    /\ fld' = 0
    /\ UNCHANGED <<arch, build_error>>
    /\ UNCHANGED layFrame

\* union Message { req: Request, rep: Reply }: the larger variant
LayoutMessage ==
    /\ lpc = "message"
    /\ sizes' = [sizes EXCEPT !.message = AlignUp(Max(sizes.request, sizes.reply), arch.W)]
    /\ lpc' = "capacity"
    /\ UNCHANGED <<arch, off, fld, build_error>>
    /\ UNCHANGED layFrame

\* the constant Block::buf_capacity() is evaluated
EvalBufCapacity ==
    /\ lpc = "capacity"
    /\ IF BufCapacityUnderflows
       THEN build_error' = TRUE /\ lpc' = "failed" /\ UNCHANGED sizes
       ELSE /\ sizes' = [sizes EXCEPT !.cap = BufCapacity]
            /\ lpc' = "block"
            /\ UNCHANGED build_error
    /\ UNCHANGED <<arch, off, fld>>
    /\ UNCHANGED layFrame

LayNext ==
    ChooseTarget \/ LayoutField \/ LayoutStruct \/ LayoutMessage \/ EvalBufCapacity

---------------------------------------------------------------------------
(* The transition primitive: Request::syscall and the host handler *)

\* the descriptor a register argument names, -1 when it names none
FdOf(a) == IF a[2] = 0 /\ a[3] = 0 /\ a[4] = 0 THEN a[1] ELSE -1

\* the kernel's return register for a failure: -errno in two's complement
KernelError(errno) == Usize(LimbBase - errno, LimbMax, LimbMax, LimbMax)
KernelValue(n) == Usize(n, 0, 0, 0)

LowestUnused(open) ==
    CHOOSE n \in 0..Cardinality(open) :
        n \notin open /\ \A m \in 0..(n - 1) : m \in open

\* the host executes the Linux syscall the Request names
HostSyscall(rq, open) ==
    LET fd == FdOf(rq.arg[1])
    IN  IF fd \notin open
        THEN [rax |-> KernelError(EBADF), open |-> open]
        ELSE IF rq.num = SignedAsUsize(SYS_close)
        THEN [rax |-> KernelValue(0), open |-> open \ {fd}]
        ELSE [rax |-> KernelValue(LowestUnused(open)),
              open |-> open \cup {LowestUnused(open)}]

\* the Reply the handler stores: the return register, the other words zero
HostReply(rax) == [ret |-> <<rax, Zero>>, err |-> Zero]

\* the handler has stored all three words and returns
HostDone == written = {1, 2, 3}

\* word i of a Reply: ret[0], ret[1], err
Word(r, i) == IF i = 3 THEN r.err ELSE r.ret[i]
SetWord(r, i, w) ==
    IF i = 3 THEN [r EXCEPT !.err = w] ELSE [r EXCEPT !.ret[i] = w]

\* what uninitialised stack memory may hold
Stale == {[ret |-> <<a, b>>, err |-> c] : a, b, c \in {Zero, UsizeMax}}

ProtoInit ==
    /\ phase = "Idle"
    /\ sreq = NoRequest
    /\ reply = NoReply
    /\ written = {}
    /\ hostret = NoReply
    /\ observed = NoReply
    /\ inflight = 0
    /\ fds = {0, 1, 2}
    /\ history = <<>>

\* the arguments the guest passes: -1, 0, or what the previous call returned
NextArgs ==
    {UsizeMax, Zero} \cup
    (IF history # <<>> /\ history[Len(history)].res.tag = "Ok"
     THEN {history[Len(history)].res.val[1]} ELSE {})

\* the guest builds the Request of its next call
WriteRequest ==
    /\ phase = "Idle"
    /\ Len(history) < MaxCalls
    /\ \E n \in Nums, a \in NextArgs : sreq' = RequestNew(n, <<a>>)
    /\ phase' = "RequestWritten"
    /\ UNCHANGED <<reply, written, hostret, observed, inflight, fds, history>>
    /\ UNCHANGED protoFrame

\* syscall(): `reply` is left uninitialised and the handler is entered
SyscallEnter ==
    /\ phase = "RequestWritten"
    /\ reply' \in Stale
    /\ written' = {}
    /\ hostret' = HostReply(HostSyscall(sreq, fds).rax)
    /\ fds' = HostSyscall(sreq, fds).open
    /\ inflight' = inflight + 1
    /\ phase' = "Transition"
    /\ UNCHANGED <<sreq, observed, history>>
    /\ UNCHANGED protoFrame

\* the handler stores one word of the Reply
HostWrite ==
    /\ phase = "Transition"
    /\ \E i \in {1, 2, 3} \ written :
          /\ reply' = SetWord(reply, i, Word(hostret, i))
          /\ written' = written \cup {i}
    /\ UNCHANGED <<phase, sreq, hostret, observed, inflight, fds, history>>
    /\ UNCHANGED protoFrame

SyscallReturnEarly ==
    /\ phase = "Transition"
    /\ observed' = reply
    /\ inflight' = inflight - 1
    /\ phase' = "ReplyWritten"
    /\ UNCHANGED <<sreq, reply, written, hostret, fds, history>>
    /\ UNCHANGED protoFrame

\* syscall(): the handler has returned, `reply` is handed to the caller
SyscallReturn ==
    /\ phase = "Transition"
    /\ HostDone
    /\ observed' = reply
    /\ inflight' = inflight - 1
    /\ phase' = "ReplyWritten"
    /\ UNCHANGED <<sreq, reply, written, hostret, fds, history>>
    /\ UNCHANGED protoFrame

\* the caller decodes the Reply; the call is over
Consume ==
    /\ phase = "ReplyWritten"
    /\ ~ResultFromPanics(observed)
    /\ history' = Append(history, [req |-> sreq, rep |-> observed,
                                   res |-> ResultFrom(observed)])
    /\ phase' = "Idle"
    /\ UNCHANGED <<sreq, reply, written, hostret, observed, inflight, fds>>
    /\ UNCHANGED protoFrame

ProtoNext ==
    WriteRequest \/ SyscallEnter \/ HostWrite \/ SyscallReturn \/ Consume

---------------------------------------------------------------------------
(* Specifications *)

Init ==
    /\ overflow_checks \in BOOLEAN
    /\ ConvInit
    /\ ReqInit
    /\ LayInit
    /\ ProtoInit

SpecConv   == Init /\ [][ConvNext]_vars
SpecReq    == Init /\ [][ReqNext]_vars
SpecLayout == Init /\ [][LayNext]_vars
SpecProto  == Init /\ [][ProtoNext]_vars

---------------------------------------------------------------------------
(* The claims about the conversions, checked under SpecConv *)

\* 2^64 - c as a register, for 1 <= c < 2^16
TwoTo64Minus(c) == Usize(LimbBase - c, LimbMax, LimbMax, LimbMax)

\* the reserved error band of the return register: above 2^64 - 4096
InErrorBand(reg) ==
    /\ reg[2] = LimbMax /\ reg[3] = LimbMax /\ reg[4] = LimbMax
    /\ reg[1] > LimbBase - ErrBand

\* the band as the Reply documentation words it: above usize::MAX - 4096
AboveDocumentedBand(reg) ==
    /\ reg[2] = LimbMax /\ reg[3] = LimbMax /\ reg[4] = LimbMax
    /\ reg[1] > LimbMax - ErrBand

\* Reply::from was applied to `value`, and came to an end one way or the other
Encoded == src = "result" /\ cpc \in {"replied", "decoded", "enc_panic"}
\* ... and Result::from was applied to what it returned
RoundTripped == src = "result" /\ cpc \in {"decoded", "enc_panic", "dec_panic"}

\* C1 as stated: for every two-word result v, Ok(v) converted to a Reply and
\* back yields Ok(v).
C1_RoundTripAnyOk ==
    (RoundTripped /\ value.tag = "Ok") => (cpc = "decoded" /\ res = value)

\* C1 amended: for every two-word result v whose v[0] is not above
\* 2^64 - 4096, Ok(v) converted to a Reply and back yields Ok(v).
C1_RoundTripOkBelowBand ==
    (RoundTripped /\ value.tag = "Ok" /\ ~InErrorBand(value.val[1]))
        => (cpc = "decoded" /\ res = value)

\* C1: Ok([2^64 - 4096, usize::MAX]), the largest v[0] below the band, came back unchanged
C1_Witness ==
    /\ cpc = "decoded" /\ src = "result" /\ value.tag = "Ok"
    /\ value.val[1] = TwoTo64Minus(ErrBand)
    /\ value.val[2] = UsizeMax
    /\ res = value

\* C2: for every error code e with 1 <= e <= 4095, Err(e) converted to a
\* Reply and back yields Err(e) with the same code.
C2_RoundTripErr ==
    (RoundTripped /\ value.tag = "Err" /\ 1 <= value.code /\ value.code <= ErrBand - 1)
        => (cpc = "decoded" /\ res.tag = "Err" /\ res.code = value.code)

\* C2: Err(EBADF) went through both conversions and came back as Err(EBADF)
C2_Witness ==
    /\ cpc = "decoded" /\ src = "result"
    /\ value = Err(EBADF)
    /\ res = Err(EBADF)

\* C3: Result::from(reply) is a failure exactly when ret[0] is above
\* usize::MAX - 4096, and otherwise Ok with both result words unchanged.
C3_FailsExactlyAboveDocumentedBand ==
    (cpc = "decoded")
        => /\ (res.tag = "Err") <=> AboveDocumentedBand(rep.ret[1])
           /\ (res.tag = "Ok") => (res.val = rep.ret)

\* the negated code -e as an unsigned register value; for the one code whose
\* negation does not fit a c_int, either 2^31 itself or its 32-bit pattern
\* sign-extended is accepted
NegatedCodes(e) ==
    IF e = CIntMin
    THEN {Usize(0, SignBit, 0, 0), Usize(0, SignBit, LimbMax, LimbMax)}
    ELSE IF e <= 0
    THEN {Usize((-e) % LimbBase, (-e) \div LimbBase, 0, 0)}
    ELSE IF e % LimbBase = 0
    THEN {Usize(0, LimbBase - (e \div LimbBase), LimbMax, LimbMax)}
    ELSE {Usize(LimbBase - (e % LimbBase), LimbMax - (e \div LimbBase), LimbMax, LimbMax)}

\* C4: Reply::from builds the Reply field by field: Ok(v) gives ret = v and
\* err = 0; Err(e) gives ret[0] = -e as an unsigned register value,
\* ret[1] = 0 and err = 0.
C4_ReplyFieldByField ==
    (src = "result" /\ cpc \in {"replied", "enc_panic"})
        => /\ cpc = "replied"
           /\ rep.err = Zero
           /\ (value.tag = "Ok") => (rep.ret = value.val)
           /\ (value.tag = "Err") =>
                 (rep.ret[1] \in NegatedCodes(value.code) /\ rep.ret[2] = Zero)

\* C5 as stated: for every c_int e, Reply::from(Err(e)) completes and gives
\* a Reply whose ret[0] is in the error band, which decodes to a failure.
C5_AnyErrStaysErr ==
    (Encoded /\ value.tag = "Err")
        => /\ cpc # "enc_panic"
           /\ InErrorBand(rep.ret[1])
           /\ (cpc = "decoded") => (res.tag = "Err")

\* C5 amended: for every e with 1 <= e <= 4095, Reply::from(Err(e)) completes
\* and gives a Reply whose ret[0] is in the error band, which decodes to a
\* failure and never to a success.
C5_SupportedErrStaysErr ==
    (Encoded /\ value.tag = "Err" /\ 1 <= value.code /\ value.code <= ErrBand - 1)
        => /\ cpc # "enc_panic"
           /\ InErrorBand(rep.ret[1])
           /\ (cpc = "decoded") => (res.tag = "Err")

\* C5: Err(4095), the largest supported code, was encoded into the band and decoded as a failure
C5_Witness ==
    /\ cpc = "decoded" /\ src = "result"
    /\ value = Err(ErrBand - 1)
    /\ rep.ret[1] = TwoTo64Minus(ErrBand - 1)
    /\ res.tag = "Err"

\* C10: whenever Result::from(reply) is Err(c), 1 <= c <= 4095 and
\* c = 2^64 - ret[0]; the truncation and negation never overflow; and the
\* result is the same whatever ret[1] and err hold.
C10_DecodedCodeInRange ==
    /\ cpc # "dec_panic"
    /\ (cpc = "decoded" /\ res.tag = "Err")
          => /\ 1 <= res.code /\ res.code <= ErrBand - 1
             /\ rep.ret[1] = TwoTo64Minus(res.code)
             /\ \A t \in Tails :
                   /\ ~ResultFromPanics([ret |-> <<rep.ret[1], t[1]>>, err |-> t[2]])
                   /\ ResultFrom([ret |-> <<rep.ret[1], t[1]>>, err |-> t[2]]) = res

\* C10: a host Reply with ret[0] = 2^64 - 4095 and non-zero ret[1], err decoded to Err(4095)
C10_Witness ==
    /\ cpc = "decoded" /\ src = "reply"
    /\ rep.ret[2] = One /\ rep.err = UsizeMax
    /\ res = Err(ErrBand - 1)

---------------------------------------------------------------------------
(* The claim about Request::new, checked under SpecReq *)

Min(a, b) == IF a <= b THEN a ELSE b

\* C6: Request::new(n, a) never fails; num = n, arg[i] = a[i] below
\* min(len(a), 7), arg[i] = 0 from len(a) up to 7; what lies at index 7 and
\* beyond is dropped, so the result is that of the first 7 elements of a.
C6_RequestNew ==
    /\ (rpc = "chosen") => ENABLED NewRequest
    /\ (rpc = "built")
          => /\ req.num = num
             /\ Len(req.arg) = 7
             /\ \A i \in 1..7 : req.arg[i] = (IF i <= Len(arg) THEN arg[i] ELSE Zero)
             /\ req = RequestNew(num, SubSeq(arg, 1, Min(Len(arg), 7)))

\* C6: a slice of more than 7 arguments was given and its 8th was dropped
C6_Witness ==
    /\ rpc = "built"
    /\ Len(arg) > 7
    /\ arg[6] = One /\ arg[7] = UsizeMax /\ arg[8] = One
    /\ req.arg[7] = UsizeMax

---------------------------------------------------------------------------
(* The claim about the layout, checked under SpecLayout *)

\* C7: size_of(Request) = 8 W, size_of(Reply) = 3 W, size_of(Message) = 8 W,
\* buf_capacity() = P - size_of(Message) without underflow, and
\* size_of(Block) = size_of(Message) + buf_capacity() = P.
C7_LayoutSizes ==
    /\ ~build_error
    /\ lpc # "failed"
    /\ (lpc = "done")
          => /\ sizes.request = 8 * arch.W
             /\ sizes.reply = 3 * arch.W
             /\ sizes.message = 8 * arch.W
             /\ sizes.cap = arch.P - sizes.message
             /\ sizes.cap >= 0
             /\ sizes.block = sizes.message + sizes.cap
             /\ sizes.block = arch.P

\* C7: the x86_64 layout (W = 8, P = 4096) was computed to the end
C7_Witness ==
    /\ lpc = "done"
    /\ arch = [W |-> 8, P |-> 4096]
    /\ sizes.block = 4096

---------------------------------------------------------------------------
(* The claims about the transition primitive, checked under SpecProto *)

PhaseCycle ==
    {<<"Idle", "RequestWritten">>, <<"RequestWritten", "Transition">>,
     <<"Transition", "ReplyWritten">>, <<"ReplyWritten", "Idle">>}

CloseOf(a) == RequestNew(SignedAsUsize(SYS_close), <<a>>)
DupOf(a)   == RequestNew(SignedAsUsize(SYS_dup), <<a>>)

\* the three calls of the scenario, as far as they have been made
Scenario(n) ==
    /\ Len(history) >= n
    /\ history[1].req = CloseOf(UsizeMax)
    /\ (n >= 2) => (history[2].req = DupOf(Zero))
    /\ (n >= 3) => (history[3].req = CloseOf(history[2].rep.ret[1]))

\* C9: with descriptors 0, 1, 2 open, close(-1) returns the Reply of
\* Err(EBADF), which decodes to Err(EBADF); then dup(0) decodes to Ok with
\* descriptor 3; then close of that descriptor decodes to Ok with ret[0] = 0.
C9_SyscallScenario ==
    /\ Scenario(1) =>
          /\ ~ReplyFromPanics(Err(EBADF))
          /\ history[1].rep = ReplyFrom(Err(EBADF))
          /\ history[1].res = Err(EBADF)
    /\ Scenario(2) =>
          /\ history[2].res.tag = "Ok"
          /\ history[2].res.val[1] = Usize(3, 0, 0, 0)
          /\ history[2].res.val[1] # Zero
    /\ Scenario(3) =>
          /\ history[3].res.tag = "Ok"
          /\ history[3].res.val[1] = Zero
          /\ ~InErrorBand(history[3].rep.ret[1])
          /\ history[3].rep.err = Zero

\* C9: all three calls of the scenario were made and the descriptor was closed again
C9_Witness ==
    /\ Scenario(3)
    /\ history[3].res = Ok(<<Zero, Zero>>)
    /\ fds = {0, 1, 2}

=============================================================================
